---- MODULE Spec2Model ----
(***************************************************************************)
(* A model of package gate (gate.go): a monitor with one bit of state,     *)
(* built from two buffered channels of capacity one.  Goroutines are the   *)
(* threads; every channel operation of the package is one atomic step.     *)
(***************************************************************************)
EXTENDS Integers, FiniteSets, Sequences, TLC

\* ---------------------------------------------------------------- bounds
NumThreads == 3
MaxCalls == 3

\* ------------------------------------------------------ program constants
\* make(chan struct{}, 1)
ChanCap == 1

Threads == 1..NumThreads

VARIABLES
    created,     \* New has returned the gate
    initialSet,  \* the argument of New
    set,         \* number of values buffered in g.set
    unset,       \* number of values buffered in g.unset
    pc,          \* per goroutine: "idle", "Lock", "WaitAndLock", "held"
    op,          \* per goroutine: the operation it invoked last
    ret,         \* per goroutine: the value its last operation returned
    ctx,         \* per goroutine: the context of its WaitAndLock call
    race,        \* per goroutine: which event came first during its wait
    calls,       \* per goroutine: operations invoked so far
    lastUnlock,  \* the argument of the most recent Unlock
    fresh,       \* no goroutine has acquired the gate since New
    budget,      \* operations the callers invoke in all
    arg,         \* per goroutine: the argument of an Unlock by a non-holder
    qerr,        \* Queue.err ("nil" while the queue is open)
    qq,          \* Queue.q
    qop,         \* per goroutine: the Queue method it is executing
    qarg,        \* per goroutine: the argument of that method
    qret,        \* per goroutine: what its last Queue method returned
    prog,        \* per goroutine: the Queue calls it has still to make
    out          \* the results printed by Example_queue

gateVars == <<created, initialSet, set, unset, pc, op, ret, ctx, race, calls,
              lastUnlock, fresh>>

\* State of the callers: the call budget and a pending Unlock of a goroutine
\* that does not hold the gate.
auxVars == <<budget, arg>>

\* The Queue of the example built on the gate, and the example's goroutines.
queueVars == <<qerr, qq, qop, qarg, qret, prog, out>>

vars == <<created, initialSet, set, unset, pc, op, ret, ctx, race, calls,
          lastUnlock, fresh, budget, arg, qerr, qq, qop, qarg, qret,
          prog, out>>

\* ---------------------------------------------------------------- helpers
BoolStr(b) == IF b THEN "true" ELSE "false"

\* ctx.Err(): nil until the context is done, then the reason.
CtxErr(c) == IF c \in {"Canceled", "DeadlineExceeded"} THEN c ELSE "nil"

\* Contexts a caller may pass: one that never fires, one that may fire
\* later, and the two kinds of already expired context.
Contexts == {"Background", "Active", "Canceled", "DeadlineExceeded"}

RECURSIVE SumCalls(_)
SumCalls(S) == IF S = {} THEN 0
               ELSE LET t == CHOOSE x \in S : TRUE
                    IN calls[t] + SumCalls(S \ {t})

\* A goroutine that is not inside an operation may invoke one.
CanCall(t) == created /\ pc[t] = "idle" /\ SumCalls(Threads) < budget

Holders == {t \in Threads : pc[t] = "held"}

\* The three states of the gate, read off the channels.
GateState ==
    IF set = 1 /\ unset = 0 THEN "UnlockedSet"
    ELSE IF set = 0 /\ unset = 1 THEN "UnlockedUnset"
    ELSE IF set = 0 /\ unset = 0 THEN "Locked"
    ELSE "Invalid"

\* ------------------------------------------------------------------- Init
\* A Queue method's argument and result; the zero values when there is none.
NoArg == [item |-> 0, err |-> "nil"]
NoRet == [kind |-> "none", item |-> 0, err |-> "nil", ok |-> FALSE]

\* No Queue is in use: the gate is called directly.
NoQueue ==
    /\ qerr = "nil"
    /\ qq = <<>>
    /\ qop = [t \in Threads |-> "none"]
    /\ qarg = [t \in Threads |-> NoArg]
    /\ qret = [t \in Threads |-> NoRet]
    /\ prog = [t \in Threads |-> <<>>]
    /\ out = <<>>

\* The gate value built by New before it calls Unlock: two empty channels.
Init ==
    /\ budget = MaxCalls
    /\ arg = [t \in Threads |-> FALSE]
    /\ NoQueue
    /\ created = FALSE
    /\ initialSet \in BOOLEAN
    /\ set = 0
    /\ unset = 0
    /\ pc = [t \in Threads |-> "idle"]
    /\ op = [t \in Threads |-> "none"]
    /\ ret = [t \in Threads |-> "none"]
    /\ ctx = [t \in Threads |-> "Background"]
    /\ race = [t \in Threads |-> "none"]
    /\ calls = [t \in Threads |-> 0]
    /\ lastUnlock = initialSet
    /\ fresh = TRUE

\* ----------------------------------------------------------------- Unlock
\* Variant: the else branch is missing, so Unlock(true) fills both channels.
GateUnlock_Both(b) ==
    IF b
    THEN set < ChanCap /\ unset < ChanCap /\ set' = set + 1
         /\ unset' = unset + 1
    ELSE unset < ChanCap /\ unset' = unset + 1 /\ set' = set

\* Variant: the argument is ignored and the value always goes to g.set.
GateUnlock_AlwaysSet(b) ==
    set < ChanCap /\ set' = set + 1 /\ unset' = unset

\* Variant: the send waits until both channels are empty.
GateUnlock_SingleSlot(b) ==
    IF b
    THEN set = 0 /\ unset = 0 /\ set' = set + 1 /\ unset' = unset
    ELSE set = 0 /\ unset = 0 /\ unset' = unset + 1 /\ set' = set

\* The channel send of Gate.Unlock; it blocks while the channel is full.
GateUnlock(b) ==
    IF b
    THEN set < ChanCap /\ set' = set + 1 /\ unset' = unset
    ELSE unset < ChanCap /\ unset' = unset + 1 /\ set' = set

\* Variant: New returns the gate without unlocking it.
New_NoUnlock ==
    /\ ~created
    /\ created' = TRUE
    /\ UNCHANGED <<set, unset, lastUnlock>>
    /\ UNCHANGED <<initialSet, pc, op, ret, ctx, race, calls, fresh>>

\* Variant: New ignores its argument and unlocks with false.
New_IgnoresArg ==
    /\ ~created
    /\ GateUnlock(FALSE)
    /\ created' = TRUE
    /\ lastUnlock' = FALSE
    /\ UNCHANGED <<initialSet, pc, op, ret, ctx, race, calls, fresh>>

\* New: g.Unlock(set); return g
New ==
    /\ ~created
    /\ GateUnlock(initialSet)
    /\ created' = TRUE
    /\ lastUnlock' = initialSet
    /\ UNCHANGED <<initialSet, pc, op, ret, ctx, race, calls, fresh>>

\* The holder releases the gate with the next condition value b.
Unlock(t, b) ==
    /\ pc[t] = "held"
    /\ GateUnlock(b)
    /\ pc' = [pc EXCEPT ![t] = "idle"]
    /\ lastUnlock' = b
    /\ ctx' = [ctx EXCEPT ![t] = "Background"]
    /\ race' = [u \in Threads |->
                  IF u = t THEN "none"
                  ELSE IF b /\ pc[u] = "WaitAndLock" /\ race[u] = "none"
                       THEN "setFirst" ELSE race[u]]
    /\ UNCHANGED <<created, initialSet, op, ret, calls, fresh>>

\* ------------------------------------------------------------------- Lock
\* The goroutine enters Lock and reaches its select.
LockCall(t) ==
    /\ CanCall(t)
    /\ pc' = [pc EXCEPT ![t] = "Lock"]
    /\ op' = [op EXCEPT ![t] = "Lock"]
    /\ ret' = [ret EXCEPT ![t] = "none"]
    /\ calls' = [calls EXCEPT ![t] = @ + 1]
    /\ UNCHANGED <<created, initialSet, set, unset, ctx, race, lastUnlock,
                   fresh>>

\* Variant: the select has no g.unset case.
Lock_SetOnly(t) ==
    /\ pc[t] = "Lock"
    /\ set > 0
    /\ set' = set - 1
    /\ unset' = unset
    /\ ret' = [ret EXCEPT ![t] = "true"]
    /\ pc' = [pc EXCEPT ![t] = "held"]
    /\ fresh' = FALSE
    /\ UNCHANGED <<created, initialSet, op, ctx, race, calls, lastUnlock>>

\* Variant: the two return values are exchanged.
Lock_Swapped(t) ==
    /\ pc[t] = "Lock"
    /\ \/ /\ set > 0
          /\ set' = set - 1
          /\ unset' = unset
          /\ ret' = [ret EXCEPT ![t] = "false"]
       \/ /\ unset > 0
          /\ unset' = unset - 1
          /\ set' = set
          /\ ret' = [ret EXCEPT ![t] = "true"]
    /\ pc' = [pc EXCEPT ![t] = "held"]
    /\ fresh' = FALSE
    /\ UNCHANGED <<created, initialSet, op, ctx, race, calls, lastUnlock>>

\* select { case <-g.set: return true; case <-g.unset: return false }
Lock(t) ==
    /\ pc[t] = "Lock"
    /\ \/ /\ set > 0
          /\ set' = set - 1
          /\ unset' = unset
          /\ ret' = [ret EXCEPT ![t] = "true"]
       \/ /\ unset > 0
          /\ unset' = unset - 1
          /\ set' = set
          /\ ret' = [ret EXCEPT ![t] = "false"]
    /\ pc' = [pc EXCEPT ![t] = "held"]
    /\ fresh' = FALSE
    /\ UNCHANGED <<created, initialSet, op, ctx, race, calls, lastUnlock>>

\* ------------------------------------------------------------ WaitAndLock
\* Variant: the first, non-blocking select is missing.
WaitAndLock_NoFirstSelect(t, c) ==
    /\ CanCall(t)
    /\ op' = [op EXCEPT ![t] = "WaitAndLock"]
    /\ ctx' = [ctx EXCEPT ![t] = c]
    /\ calls' = [calls EXCEPT ![t] = @ + 1]
    /\ pc' = [pc EXCEPT ![t] = "WaitAndLock"]
    /\ ret' = [ret EXCEPT ![t] = "none"]
    /\ race' = [race EXCEPT ![t] =
                  IF CtxErr(c) # "nil" /\ set = 0 THEN "ctxFirst" ELSE "none"]
    /\ UNCHANGED <<created, initialSet, set, unset, lastUnlock, fresh>>

\* The call and its first select: take g.set if it holds a value, whatever
\* the context says; otherwise go on to the blocking select.
WaitAndLock(t, c) ==
    /\ CanCall(t)
    /\ op' = [op EXCEPT ![t] = "WaitAndLock"]
    /\ ctx' = [ctx EXCEPT ![t] = c]
    /\ calls' = [calls EXCEPT ![t] = @ + 1]
    /\ IF set > 0
       THEN /\ set' = set - 1
            /\ unset' = unset
            /\ pc' = [pc EXCEPT ![t] = "held"]
            /\ ret' = [ret EXCEPT ![t] = "nil"]
            /\ race' = [race EXCEPT ![t] = "none"]
            /\ fresh' = FALSE
       ELSE /\ pc' = [pc EXCEPT ![t] = "WaitAndLock"]
            /\ ret' = [ret EXCEPT ![t] = "none"]
            /\ race' = [race EXCEPT ![t] =
                          IF CtxErr(c) # "nil" THEN "ctxFirst" ELSE "none"]
            /\ UNCHANGED <<set, unset, fresh>>
    /\ UNCHANGED <<created, initialSet, lastUnlock>>

\* Variant: the select also receives from g.unset, as Lock does.
WaitAndLockWait_EitherChan(t) ==
    /\ pc[t] = "WaitAndLock"
    /\ \/ /\ set > 0
          /\ set' = set - 1
          /\ unset' = unset
          /\ pc' = [pc EXCEPT ![t] = "held"]
          /\ ret' = [ret EXCEPT ![t] = "nil"]
          /\ fresh' = FALSE
          /\ ctx' = ctx
       \/ /\ unset > 0
          /\ unset' = unset - 1
          /\ set' = set
          /\ pc' = [pc EXCEPT ![t] = "held"]
          /\ ret' = [ret EXCEPT ![t] = "nil"]
          /\ fresh' = FALSE
          /\ ctx' = ctx
       \/ /\ CtxErr(ctx[t]) # "nil"
          /\ pc' = [pc EXCEPT ![t] = "idle"]
          /\ ret' = [ret EXCEPT ![t] = CtxErr(ctx[t])]
          /\ ctx' = [ctx EXCEPT ![t] = "Background"]
          /\ UNCHANGED <<set, unset, fresh>>
    /\ UNCHANGED <<created, initialSet, op, race, calls, lastUnlock>>

\* Variant: the select waits on g.unset instead of g.set.
WaitAndLockWait_WrongChan(t) ==
    /\ pc[t] = "WaitAndLock"
    /\ \/ /\ unset > 0
          /\ unset' = unset - 1
          /\ set' = set
          /\ pc' = [pc EXCEPT ![t] = "held"]
          /\ ret' = [ret EXCEPT ![t] = "nil"]
          /\ fresh' = FALSE
          /\ ctx' = ctx
       \/ /\ CtxErr(ctx[t]) # "nil"
          /\ pc' = [pc EXCEPT ![t] = "idle"]
          /\ ret' = [ret EXCEPT ![t] = CtxErr(ctx[t])]
          /\ ctx' = [ctx EXCEPT ![t] = "Background"]
          /\ UNCHANGED <<set, unset, fresh>>
    /\ UNCHANGED <<created, initialSet, op, race, calls, lastUnlock>>

\* Variant: a cancelled wait empties g.unset before it returns.
WaitAndLockWait_CancelDrains(t) ==
    /\ pc[t] = "WaitAndLock"
    /\ \/ /\ set > 0
          /\ set' = set - 1
          /\ unset' = unset
          /\ pc' = [pc EXCEPT ![t] = "held"]
          /\ ret' = [ret EXCEPT ![t] = "nil"]
          /\ fresh' = FALSE
          /\ ctx' = ctx
       \/ /\ CtxErr(ctx[t]) # "nil"
          /\ pc' = [pc EXCEPT ![t] = "idle"]
          /\ ret' = [ret EXCEPT ![t] = CtxErr(ctx[t])]
          /\ ctx' = [ctx EXCEPT ![t] = "Background"]
          /\ set' = set
          /\ unset' = 0
          /\ fresh' = fresh
    /\ UNCHANGED <<created, initialSet, op, race, calls, lastUnlock>>

\* Variant: the ctx.Done case returns nil instead of ctx.Err().
WaitAndLockWait_CancelNil(t) ==
    /\ pc[t] = "WaitAndLock"
    /\ \/ /\ set > 0
          /\ set' = set - 1
          /\ unset' = unset
          /\ pc' = [pc EXCEPT ![t] = "held"]
          /\ ret' = [ret EXCEPT ![t] = "nil"]
          /\ fresh' = FALSE
          /\ ctx' = ctx
       \/ /\ CtxErr(ctx[t]) # "nil"
          /\ pc' = [pc EXCEPT ![t] = "held"]
          /\ ret' = [ret EXCEPT ![t] = "nil"]
          /\ ctx' = ctx
          /\ UNCHANGED <<set, unset, fresh>>
    /\ UNCHANGED <<created, initialSet, op, race, calls, lastUnlock>>

\* Variant: the select only looks whether g.set holds a value and leaves it
\* there.
WaitAndLockWait_Peek(t) ==
    /\ pc[t] = "WaitAndLock"
    /\ \/ /\ set > 0
          /\ pc' = [pc EXCEPT ![t] = "held"]
          /\ ret' = [ret EXCEPT ![t] = "nil"]
          /\ fresh' = FALSE
          /\ UNCHANGED <<set, unset, ctx>>
       \/ /\ CtxErr(ctx[t]) # "nil"
          /\ pc' = [pc EXCEPT ![t] = "idle"]
          /\ ret' = [ret EXCEPT ![t] = CtxErr(ctx[t])]
          /\ ctx' = [ctx EXCEPT ![t] = "Background"]
          /\ UNCHANGED <<set, unset, fresh>>
    /\ UNCHANGED <<created, initialSet, op, race, calls, lastUnlock>>

\* Variant: the ctx.Done case is missing from the blocking select.
WaitAndLockWait_NoCancel(t) ==
    /\ pc[t] = "WaitAndLock"
    /\ set > 0
    /\ set' = set - 1
    /\ unset' = unset
    /\ pc' = [pc EXCEPT ![t] = "held"]
    /\ ret' = [ret EXCEPT ![t] = "nil"]
    /\ fresh' = FALSE
    /\ UNCHANGED <<created, initialSet, op, ctx, race, calls, lastUnlock>>

\* select { case <-g.set: return nil; case <-ctx.Done(): return ctx.Err() }
\* When both cases are ready the select picks either.
WaitAndLockWait(t) ==
    /\ pc[t] = "WaitAndLock"
    /\ \/ /\ set > 0
          /\ set' = set - 1
          /\ unset' = unset
          /\ pc' = [pc EXCEPT ![t] = "held"]
          /\ ret' = [ret EXCEPT ![t] = "nil"]
          /\ fresh' = FALSE
          /\ ctx' = ctx
       \/ /\ CtxErr(ctx[t]) # "nil"
          /\ pc' = [pc EXCEPT ![t] = "idle"]
          /\ ret' = [ret EXCEPT ![t] = CtxErr(ctx[t])]
          /\ ctx' = [ctx EXCEPT ![t] = "Background"]
          /\ UNCHANGED <<set, unset, fresh>>
    /\ UNCHANGED <<created, initialSet, op, race, calls, lastUnlock>>

\* (ctx is the context of the call in progress; it is forgotten on return.)
\* The context of a waiting goroutine is cancelled or reaches its deadline.
CtxDone(t, e) ==
    /\ pc[t] = "WaitAndLock"
    /\ ctx[t] = "Active"
    /\ ctx' = [ctx EXCEPT ![t] = e]
    /\ race' = [race EXCEPT ![t] = IF @ = "none" THEN "ctxFirst" ELSE @]
    /\ UNCHANGED <<created, initialSet, set, unset, pc, op, ret, calls,
                   lastUnlock, fresh>>

\* -------------------------------------------------------------- LockIfSet
\* Variant: the value is left in g.set when the gate is taken.
LockIfSet_Peek(t) ==
    /\ CanCall(t)
    /\ op' = [op EXCEPT ![t] = "LockIfSet"]
    /\ calls' = [calls EXCEPT ![t] = @ + 1]
    /\ IF set > 0
       THEN /\ pc' = [pc EXCEPT ![t] = "held"]
            /\ ret' = [ret EXCEPT ![t] = "true"]
            /\ fresh' = FALSE
            /\ UNCHANGED <<set, unset>>
       ELSE /\ ret' = [ret EXCEPT ![t] = "false"]
            /\ UNCHANGED <<set, unset, pc, fresh>>
    /\ UNCHANGED <<created, initialSet, ctx, race, lastUnlock>>

\* Variant: the select also receives from g.unset.
LockIfSet_EitherChan(t) ==
    /\ CanCall(t)
    /\ op' = [op EXCEPT ![t] = "LockIfSet"]
    /\ calls' = [calls EXCEPT ![t] = @ + 1]
    /\ IF set > 0 \/ unset > 0
       THEN /\ set' = 0
            /\ unset' = 0
            /\ pc' = [pc EXCEPT ![t] = "held"]
            /\ ret' = [ret EXCEPT ![t] = "true"]
            /\ fresh' = FALSE
       ELSE /\ ret' = [ret EXCEPT ![t] = "false"]
            /\ UNCHANGED <<set, unset, pc, fresh>>
    /\ UNCHANGED <<created, initialSet, ctx, race, lastUnlock>>

\* select { case <-g.set: return true; default: return false }
LockIfSet(t) ==
    /\ CanCall(t)
    /\ op' = [op EXCEPT ![t] = "LockIfSet"]
    /\ calls' = [calls EXCEPT ![t] = @ + 1]
    /\ IF set > 0
       THEN /\ set' = set - 1
            /\ unset' = unset
            /\ pc' = [pc EXCEPT ![t] = "held"]
            /\ ret' = [ret EXCEPT ![t] = "true"]
            /\ fresh' = FALSE
       ELSE /\ ret' = [ret EXCEPT ![t] = "false"]
            /\ UNCHANGED <<set, unset, pc, fresh>>
    /\ UNCHANGED <<created, initialSet, ctx, race, lastUnlock>>

\* ------------------------------------------------------------------- Next
\* The steps of the gate when goroutines call it directly: the operations
\* above, with the Queue left alone.
GateNew == New /\ UNCHANGED <<auxVars, queueVars>>

GateLockCall(t) == LockCall(t) /\ UNCHANGED <<auxVars, queueVars>>

GateLock(t) == Lock(t) /\ UNCHANGED <<auxVars, queueVars>>

GateWaitAndLock(t, c) ==
    WaitAndLock(t, c) /\ UNCHANGED <<auxVars, queueVars>>

GateWaitAndLockWait(t) == WaitAndLockWait(t) /\ UNCHANGED <<auxVars, queueVars>>

GateCtxDone(t, e) == CtxDone(t, e) /\ UNCHANGED <<auxVars, queueVars>>

GateLockIfSet(t) == LockIfSet(t) /\ UNCHANGED <<auxVars, queueVars>>

GateUnlockHeld(t, b) == Unlock(t, b) /\ UNCHANGED <<auxVars, queueVars>>

Next ==
    \/ GateNew
    \/ \E t \in Threads : GateLockCall(t)
    \/ \E t \in Threads : GateLock(t)
    \/ \E t \in Threads, c \in Contexts : GateWaitAndLock(t, c)
    \/ \E t \in Threads : GateWaitAndLockWait(t)
    \/ \E t \in Threads, e \in {"Canceled", "DeadlineExceeded"} :
          GateCtxDone(t, e)
    \/ \E t \in Threads : GateLockIfSet(t)
    \/ \E t \in Threads, b \in BOOLEAN : GateUnlockHeld(t, b)

Spec == Init /\ [][Next]_vars

\* A runnable goroutine is eventually scheduled: a select with a ready case
\* is eventually executed, and New returns.
Fairness ==
    /\ WF_vars(GateNew)
    /\ \A t \in Threads : WF_vars(GateLock(t))
    /\ \A t \in Threads : WF_vars(GateWaitAndLockWait(t))

FairSpec == Spec /\ Fairness

TypeOK ==
    /\ created \in BOOLEAN
    /\ initialSet \in BOOLEAN
    /\ set \in 0..ChanCap
    /\ unset \in 0..ChanCap
    /\ pc \in [Threads -> {"idle", "Lock", "WaitAndLock", "held"}]
    /\ op \in [Threads -> {"none", "Lock", "WaitAndLock", "LockIfSet"}]
    /\ ret \in [Threads -> {"none", "true", "false", "nil", "Canceled",
                            "DeadlineExceeded"}]
    /\ ctx \in [Threads -> Contexts]
    /\ race \in [Threads -> {"none", "ctxFirst", "setFirst"}]
    /\ calls \in [Threads -> 0..MaxCalls]
    /\ lastUnlock \in BOOLEAN
    /\ fresh \in BOOLEAN
    /\ budget \in Nat
    /\ arg \in [Threads -> BOOLEAN]

\* ================================================================== Queue
\* The Queue of the example: a slice and an error guarded by a gate whose
\* condition is "the queue is non-empty or closed".  Each method runs its
\* body and its deferred unlock in one step, while it holds the gate.
MaxItem == 2
QueueCalls == 2

Items == 1..MaxItem

\* Errors passed to Close; Close(nil) is a call too.
CloseErrs == {"nil", "EOF", "ErrClosed"}

\* NewQueue: gate.New(false), no items, no error.
QueueInit ==
    /\ budget = QueueCalls
    /\ arg = [t \in Threads |-> FALSE]
    /\ NoQueue
    /\ created = FALSE
    /\ initialSet = FALSE
    /\ set = 0
    /\ unset = 0
    /\ pc = [t \in Threads |-> "idle"]
    /\ op = [t \in Threads |-> "none"]
    /\ ret = [t \in Threads |-> "none"]
    /\ ctx = [t \in Threads |-> "Background"]
    /\ race = [t \in Threads |-> "none"]
    /\ calls = [t \in Threads |-> 0]
    /\ lastUnlock = initialSet
    /\ fresh = TRUE

NewQueue == New /\ UNCHANGED <<auxVars, queueVars>>

\* unlock: q.gate.Unlock(q.err != nil || len(q.q) > 0), evaluated on the
\* error e and the items s the method leaves behind.
QueueUnlock_AlwaysSet(t, e, s) == Unlock(t, TRUE)

QueueUnlock_NonEmptyOnly(t, e, s) == Unlock(t, Len(s) > 0)

QueueUnlock(t, e, s) == Unlock(t, e # "nil" \/ Len(s) > 0)

\* A goroutine enters Close(e): q.gate.Lock().
CloseCall(t, e) ==
    /\ qop[t] = "none"
    /\ LockCall(t)
    /\ qop' = [qop EXCEPT ![t] = "Close"]
    /\ qarg' = [qarg EXCEPT ![t] = [item |-> 0, err |-> e]]
    /\ UNCHANGED <<auxVars, qerr, qq, qret, out>>

\* A goroutine enters Put(v): q.gate.Lock().
PutCall(t, v) ==
    /\ qop[t] = "none"
    /\ LockCall(t)
    /\ qop' = [qop EXCEPT ![t] = "Put"]
    /\ qarg' = [qarg EXCEPT ![t] = [item |-> v, err |-> "nil"]]
    /\ UNCHANGED <<auxVars, qerr, qq, qret, out>>

\* The Lock of Close and Put returns; its result is not used.
QueueLock(t) ==
    /\ qop[t] \in {"Close", "Put"}
    /\ Lock(t)
    /\ UNCHANGED <<auxVars, queueVars>>

CloseBody_Overwrite(t) ==
    /\ qop[t] = "Close"
    /\ pc[t] = "held"
    /\ qerr' = qarg[t].err
    /\ QueueUnlock(t, qerr', qq)
    /\ qop' = [qop EXCEPT ![t] = "none"]
    /\ qret' = [qret EXCEPT ![t] =
                  [kind |-> "Close", item |-> 0, err |-> "nil", ok |-> TRUE]]
    /\ UNCHANGED <<auxVars, qq, qarg, prog, out>>

\* Close: if q.err == nil { q.err = err }; unlock.
CloseBody(t) ==
    /\ qop[t] = "Close"
    /\ pc[t] = "held"
    /\ qerr' = IF qerr = "nil" THEN qarg[t].err ELSE qerr
    /\ QueueUnlock(t, qerr', qq)
    /\ qop' = [qop EXCEPT ![t] = "none"]
    /\ qret' = [qret EXCEPT ![t] =
                  [kind |-> "Close", item |-> 0, err |-> "nil", ok |-> TRUE]]
    /\ UNCHANGED <<auxVars, qq, qarg, prog, out>>

\* Put: false if the queue is closed, else append and true; unlock.
PutBody(t) ==
    /\ qop[t] = "Put"
    /\ pc[t] = "held"
    /\ qq' = IF qerr # "nil" THEN qq ELSE Append(qq, qarg[t].item)
    /\ QueueUnlock(t, qerr, qq')
    /\ qop' = [qop EXCEPT ![t] = "none"]
    /\ qret' = [qret EXCEPT ![t] =
                  [kind |-> "Put", item |-> 0, err |-> "nil",
                   ok |-> (qerr = "nil")]]
    /\ UNCHANGED <<auxVars, qerr, qarg, prog, out>>

\* A goroutine enters Get(ctx): the first select of q.gate.WaitAndLock(ctx).
GetCall(t, c) ==
    /\ qop[t] = "none"
    /\ WaitAndLock(t, c)
    /\ qop' = [qop EXCEPT ![t] = "Get"]
    /\ qarg' = [qarg EXCEPT ![t] = NoArg]
    /\ UNCHANGED <<auxVars, qerr, qq, qret, out>>

\* The blocking select of Get's WaitAndLock: on an error Get returns
\* (zero, err) at once, without touching the queue.
GetWait(t) ==
    /\ qop[t] = "Get"
    /\ WaitAndLockWait(t)
    /\ IF pc'[t] = "held"
       THEN UNCHANGED <<qop, qret>>
       ELSE /\ qop' = [qop EXCEPT ![t] = "none"]
            /\ qret' = [qret EXCEPT ![t] =
                          [kind |-> "Get", item |-> 0, err |-> ret'[t],
                           ok |-> FALSE]]
    /\ UNCHANGED <<auxVars, qerr, qq, qarg, prog>>

\* The context of a goroutine waiting in Get becomes done.
GetCtxDone(t, e) ==
    /\ qop[t] = "Get"
    /\ CtxDone(t, e)
    /\ UNCHANGED <<auxVars, queueVars>>

\* Get with the gate held: (zero, q.err) if the queue is closed; else
\* v := q.q[0], which panics with an index out of range on an empty slice,
\* and q.q = slices.Delete(q.q, 0, 1); the deferred unlock runs in each case.
GetBody(t) ==
    /\ qop[t] = "Get"
    /\ pc[t] = "held"
    /\ qq' = IF qerr = "nil" /\ Len(qq) > 0 THEN Tail(qq) ELSE qq
    /\ QueueUnlock(t, qerr, qq')
    /\ qop' = [qop EXCEPT ![t] = "none"]
    /\ qret' = [qret EXCEPT ![t] =
                  IF qerr # "nil"
                  THEN [kind |-> "Get", item |-> 0, err |-> qerr, ok |-> FALSE]
                  ELSE IF Len(qq) = 0
                  THEN [kind |-> "Get", item |-> 0, err |-> "panic",
                        ok |-> FALSE]
                  ELSE [kind |-> "Get", item |-> Head(qq), err |-> "nil",
                        ok |-> TRUE]]
    /\ UNCHANGED <<auxVars, qerr, qarg, prog>>

\* Contexts passed to Get: one that never fires, one that is cancelled
\* during the call, one that is cancelled already.
GetContexts == {"Background", "Active", "Canceled"}

\* Goroutines call Close, Put and Get as they like, within the budget;
\* nothing is printed.
QueueClose(t, e) == CloseCall(t, e) /\ UNCHANGED prog

QueuePut(t, v) == PutCall(t, v) /\ UNCHANGED prog

QueueGet(t, c) == GetCall(t, c) /\ UNCHANGED prog

QueueGetWait(t) == GetWait(t) /\ UNCHANGED out

QueueGetBody(t) == GetBody(t) /\ UNCHANGED out

QueueNext ==
    \/ NewQueue
    \/ \E t \in Threads, e \in CloseErrs : QueueClose(t, e)
    \/ \E t \in Threads, v \in Items : QueuePut(t, v)
    \/ \E t \in Threads, c \in GetContexts : QueueGet(t, c)
    \/ \E t \in Threads : QueueLock(t)
    \/ \E t \in Threads : CloseBody(t)
    \/ \E t \in Threads : PutBody(t)
    \/ \E t \in Threads : QueueGetWait(t)
    \/ \E t \in Threads : GetCtxDone(t, "Canceled")
    \/ \E t \in Threads : QueueGetBody(t)

QueueSpec == QueueInit /\ [][QueueNext]_vars

\* A goroutine that can run is eventually scheduled.
QueueFairness ==
    /\ WF_vars(NewQueue)
    /\ \A t \in Threads :
         /\ WF_vars(QueueLock(t))
         /\ WF_vars(CloseBody(t))
         /\ WF_vars(PutBody(t))
         /\ WF_vars(QueueGetWait(t))
         /\ WF_vars(QueueGetBody(t))

FairQueueSpec == QueueSpec /\ QueueFairness

QueueTypeOK ==
    /\ TypeOK
    /\ qerr \in CloseErrs
    /\ qq \in Seq(Items)
    /\ qop \in [Threads -> {"none", "Close", "Put", "Get"}]

\* ========================================================== Example_queue
\* The producer goroutine and the main goroutine of Example_queue.  A
\* time.Sleep is a step of its goroutine that orders nothing.
Producer == 1
Consumer == 2

\* time.Sleep; q.Put(1); time.Sleep; q.Put(2); q.Close(io.EOF)
ProducerProg ==
    << [op |-> "Sleep", item |-> 0, err |-> "nil"],
       [op |-> "Put", item |-> 1, err |-> "nil"],
       [op |-> "Sleep", item |-> 0, err |-> "nil"],
       [op |-> "Put", item |-> 2, err |-> "nil"],
       [op |-> "Close", item |-> 0, err |-> "EOF"] >>

\* fmt.Println(q.Get(context.Background())), three times
ConsumerProg ==
    << [op |-> "Get", item |-> 0, err |-> "nil"],
       [op |-> "Get", item |-> 0, err |-> "nil"],
       [op |-> "Get", item |-> 0, err |-> "nil"] >>

IsQueueCall(c) == c.op # "Sleep"

ExampleCalls ==
    Len(SelectSeq(ProducerProg, IsQueueCall)) + Len(ConsumerProg)

ExampleInit ==
    /\ budget = ExampleCalls
    /\ arg = [t \in Threads |-> FALSE]
    /\ qerr = "nil"
    /\ qq = <<>>
    /\ qop = [t \in Threads |-> "none"]
    /\ qarg = [t \in Threads |-> NoArg]
    /\ qret = [t \in Threads |-> NoRet]
    /\ prog = [t \in Threads |->
                 IF t = Producer THEN ProducerProg
                 ELSE IF t = Consumer THEN ConsumerProg
                 ELSE <<>>]
    /\ out = <<>>
    /\ created = FALSE
    /\ initialSet = FALSE
    /\ set = 0
    /\ unset = 0
    /\ pc = [t \in Threads |-> "idle"]
    /\ op = [t \in Threads |-> "none"]
    /\ ret = [t \in Threads |-> "none"]
    /\ ctx = [t \in Threads |-> "Background"]
    /\ race = [t \in Threads |-> "none"]
    /\ calls = [t \in Threads |-> 0]
    /\ lastUnlock = initialSet
    /\ fresh = TRUE

\* The next call of a goroutine's program.
NextCall(t, o) == prog[t] # <<>> /\ Head(prog[t]).op = o

ExampleSleep(t) ==
    /\ created
    /\ NextCall(t, "Sleep")
    /\ prog' = [prog EXCEPT ![t] = Tail(@)]
    /\ UNCHANGED <<gateVars, auxVars, qerr, qq, qop, qarg, qret, out>>

ExamplePut(t) ==
    /\ NextCall(t, "Put")
    /\ PutCall(t, Head(prog[t]).item)
    /\ prog' = [prog EXCEPT ![t] = Tail(@)]

ExampleClose(t) ==
    /\ NextCall(t, "Close")
    /\ CloseCall(t, Head(prog[t]).err)
    /\ prog' = [prog EXCEPT ![t] = Tail(@)]

\* The arguments of fmt.Println are evaluated before it prints: the next
\* Get starts once the result of the last one is printed.
ExampleGet(t) ==
    /\ NextCall(t, "Get")
    /\ qret[t].kind # "Get"
    /\ GetCall(t, "Background")
    /\ prog' = [prog EXCEPT ![t] = Tail(@)]

\* fmt.Println prints what Get returned.
ExamplePrint(t) ==
    /\ qop[t] = "none"
    /\ qret[t].kind = "Get"
    /\ out' = Append(out, <<qret[t].item, qret[t].err>>)
    /\ qret' = [qret EXCEPT ![t] = NoRet]
    /\ UNCHANGED <<gateVars, auxVars, qerr, qq, qop, qarg, prog>>

ExampleNext ==
    \/ NewQueue
    \/ \E t \in Threads : ExampleSleep(t)
    \/ \E t \in Threads : ExamplePut(t)
    \/ \E t \in Threads : ExampleClose(t)
    \/ \E t \in Threads : ExampleGet(t)
    \/ \E t \in Threads : QueueLock(t)
    \/ \E t \in Threads : CloseBody(t)
    \/ \E t \in Threads : PutBody(t)
    \/ \E t \in Threads : QueueGetWait(t)
    \/ \E t \in Threads : QueueGetBody(t)
    \/ \E t \in Threads : ExamplePrint(t)

ExampleSpec == ExampleInit /\ [][ExampleNext]_vars

\* ========================================================= contract misuse
\* Unlock called by a goroutine that does not hold the gate.  Gate.Unlock
\* checks nothing: the goroutine reaches the channel send, which blocks
\* while the channel its argument names is full.  The other goroutines use
\* the gate as before; their contexts never fire.
MisuseCalls == 3

MisuseInit ==
    /\ budget = MisuseCalls
    /\ arg = [t \in Threads |-> FALSE]
    /\ NoQueue
    /\ created = FALSE
    /\ initialSet \in BOOLEAN
    /\ set = 0
    /\ unset = 0
    /\ pc = [t \in Threads |-> "idle"]
    /\ op = [t \in Threads |-> "none"]
    /\ ret = [t \in Threads |-> "none"]
    /\ ctx = [t \in Threads |-> "Background"]
    /\ race = [t \in Threads |-> "none"]
    /\ calls = [t \in Threads |-> 0]
    /\ lastUnlock = initialSet
    /\ fresh = TRUE

\* A goroutine that holds nothing enters Unlock(b).
UnlockNotHeldCall(t, b) ==
    /\ CanCall(t)
    /\ pc' = [pc EXCEPT ![t] = "Unlock"]
    /\ op' = [op EXCEPT ![t] = "Unlock"]
    /\ ret' = [ret EXCEPT ![t] = "none"]
    /\ calls' = [calls EXCEPT ![t] = @ + 1]
    /\ arg' = [arg EXCEPT ![t] = b]
    /\ UNCHANGED <<created, initialSet, set, unset, ctx, race, lastUnlock,
                   fresh, budget, queueVars>>

\* Its send completes and Unlock returns.
UnlockNotHeld(t) ==
    /\ pc[t] = "Unlock"
    /\ GateUnlock(arg[t])
    /\ pc' = [pc EXCEPT ![t] = "idle"]
    /\ lastUnlock' = arg[t]
    /\ race' = [u \in Threads |->
                  IF arg[t] /\ pc[u] = "WaitAndLock" /\ race[u] = "none"
                  THEN "setFirst" ELSE race[u]]
    /\ UNCHANGED <<created, initialSet, op, ret, ctx, calls, fresh,
                   auxVars, queueVars>>

MisuseNext ==
    \/ GateNew
    \/ \E t \in Threads : GateLockCall(t)
    \/ \E t \in Threads : GateLock(t)
    \/ \E t \in Threads : GateWaitAndLock(t, "Background")
    \/ \E t \in Threads : GateWaitAndLockWait(t)
    \/ \E t \in Threads : GateLockIfSet(t)
    \/ \E t \in Threads, b \in BOOLEAN : GateUnlockHeld(t, b)
    \/ \E t \in Threads, b \in BOOLEAN : UnlockNotHeldCall(t, b)
    \/ \E t \in Threads : UnlockNotHeld(t)

MisuseSpec == MisuseInit /\ [][MisuseNext]_vars

\* ============================================================= properties
Errors == {"Canceled", "DeadlineExceeded"}

\* Goroutine t invokes operation o in this step.
Called(t, o) == calls'[t] = calls[t] + 1 /\ op'[t] = o

UnlockedAs(b) == IF b THEN "UnlockedSet" ELSE "UnlockedUnset"

\* C1: mutual exclusion - in every reachable state at most one goroutine
\* holds the gate, whatever the interleaving of Lock, WaitAndLock, LockIfSet
\* and (holder-only, once per acquisition) Unlock.
C1_MutualExclusion == Cardinality(Holders) <= 1

\* One goroutine holds the gate while another is blocked in Lock and a third
\* is blocked in WaitAndLock.
C1_Witness ==
    \E t, u, w \in Threads :
        pc[t] = "held" /\ pc[u] = "Lock" /\ pc[w] = "WaitAndLock"

\* C2: every nil return of WaitAndLock is a step that takes the gate directly
\* from UnlockedSet to Locked and makes the caller the holder; a WaitAndLock
\* caller never acquires from UnlockedUnset or Locked.
C2_WaitAcquiresFromSet ==
    [][\A t \in Threads :
         (/\ op'[t] = "WaitAndLock"
          /\ pc[t] \in {"idle", "WaitAndLock"}
          /\ \/ pc'[t] = "held"
             \/ (ret'[t] = "nil" /\ ret[t] # "nil"))
         => /\ GateState = "UnlockedSet"
            /\ GateState' = "Locked"
            /\ pc'[t] = "held"
            /\ ret'[t] = "nil"
            /\ Holders' = {t}]_vars

\* A goroutine that blocked in WaitAndLock holds the gate after an
\* Unlock(true) arrived during its wait.
C2_Witness ==
    \E t \in Threads :
        /\ pc[t] = "held" /\ op[t] = "WaitAndLock" /\ ret[t] = "nil"
        /\ race[t] = "setFirst"

\* C3: no lost wakeups - once the last Unlock was Unlock(true) and a
\* goroutine whose context never fires is waiting in WaitAndLock, some
\* goroutine eventually acquires the gate; when nobody but the waiters can
\* still attempt an acquisition, a waiter eventually returns nil.
WakeupPending ==
    /\ created
    /\ lastUnlock
    /\ Holders = {}
    /\ \E t \in Threads : pc[t] = "WaitAndLock" /\ ctx[t] = "Background"

OnlyWaiters ==
    /\ SumCalls(Threads) = MaxCalls
    /\ \A u \in Threads : pc[u] \in {"idle", "WaitAndLock"}

\* A goroutine that had blocked in WaitAndLock holds the gate (race is
\* "none" for a call that acquired in its first select).
WaiterAcquired ==
    \E t \in Threads :
        /\ pc[t] = "held" /\ op[t] = "WaitAndLock" /\ ret[t] = "nil"
        /\ race[t] # "none"

C3_NoLostWakeup ==
    /\ WakeupPending ~> (Holders # {})
    /\ (WakeupPending /\ OnlyWaiters) ~> WaiterAcquired

\* A waiter with a context that never fires holds the gate, woken by an
\* Unlock(true), after every other goroutine had used up its calls.
C3_Witness ==
    \E t \in Threads :
        /\ pc[t] = "held" /\ op[t] = "WaitAndLock" /\ ret[t] = "nil"
        /\ race[t] = "setFirst" /\ ctx[t] = "Background"
        /\ SumCalls(Threads) = MaxCalls
        /\ \A u \in Threads \ {t} : pc[u] = "idle"

\* C4: a WaitAndLock call that returns an error changes nothing - neither
\* the step that starts the wait nor the step that returns the error alters
\* the channels or the holder, the caller does not hold the gate afterwards,
\* and the error is ctx.Err() of the call's context.
C4_CancelledWaitChangesNothing ==
    [][\A t \in Threads :
         /\ (Called(t, "WaitAndLock") /\ pc'[t] # "held")
            => /\ set' = set /\ unset' = unset /\ Holders' = Holders
               /\ pc'[t] = "WaitAndLock"
         /\ (pc[t] = "WaitAndLock" /\ pc'[t] # "WaitAndLock"
             /\ pc'[t] # "held")
            => /\ set' = set /\ unset' = unset /\ Holders' = Holders
               /\ pc'[t] = "idle"
               /\ ctx[t] \in Errors
               /\ ret'[t] = ctx[t]]_vars

\* A WaitAndLock call has returned an error while another goroutine holds
\* the gate.
C4_Witness ==
    \E t, u \in Threads :
        /\ pc[t] = "idle" /\ op[t] = "WaitAndLock" /\ ret[t] \in Errors
        /\ pc[u] = "held"

\* C5: tie-break - a WaitAndLock invoked while the gate is UnlockedSet with
\* an already expired context acquires the gate and returns nil.
C5_TieBreak ==
    [][\A t \in Threads :
         (/\ Called(t, "WaitAndLock")
          /\ GateState = "UnlockedSet"
          /\ CtxErr(ctx'[t]) # "nil")
         => /\ pc'[t] = "held"
            /\ ret'[t] = "nil"
            /\ GateState' = "Locked"]_vars

\* A goroutine holds the gate through a WaitAndLock that never waited and
\* whose context was already expired.
C5_Witness ==
    \E t \in Threads :
        /\ pc[t] = "held" /\ op[t] = "WaitAndLock" /\ ret[t] = "nil"
        /\ ctx[t] \in Errors /\ race[t] = "none"

C7_LockIfSet ==
    /\ [](\A t \in Threads : CanCall(t) => ENABLED LockIfSet(t))
    /\ [][\A t \in Threads :
            Called(t, "LockIfSet")
            => /\ pc'[t] \in {"idle", "held"}
               /\ GateState = "UnlockedSet"
                  => /\ ret'[t] = "true"
                     /\ pc'[t] = "held"
                     /\ GateState' = "Locked"
                     /\ Holders' = {t}
               /\ GateState # "UnlockedSet"
                  => /\ ret'[t] = "false"
                     /\ pc'[t] = "idle"
                     /\ set' = set /\ unset' = unset
                     /\ Holders' = Holders]_vars

\* LockIfSet has returned false to one goroutine while another holds the
\* gate.
C7_Witness ==
    \E t, u \in Threads :
        /\ pc[t] = "idle" /\ op[t] = "LockIfSet" /\ ret[t] = "false"
        /\ pc[u] = "held"

\* C8: Lock acquires from either unlocked state and returns true iff the
\* gate was UnlockedSet at that instant, false iff it was UnlockedUnset; the
\* value equals the argument of the most recent Unlock (New's included).
C8_LockReportsCondition ==
    [][\A t \in Threads :
         (pc[t] = "Lock" /\ pc'[t] # "Lock")
         => /\ GateState \in {"UnlockedSet", "UnlockedUnset"}
            /\ pc'[t] = "held"
            /\ ret'[t] = BoolStr(GateState = "UnlockedSet")
            /\ ret'[t] = BoolStr(lastUnlock)
            /\ GateState' = "Locked"]_vars

\* Lock has returned true on a gate created unset: the value comes from an
\* Unlock(true), not from New.
C8_Witness ==
    \E t \in Threads :
        /\ pc[t] = "held" /\ op[t] = "Lock" /\ ret[t] = "true"
        /\ ~initialSet

\* C9: Unlock(nextSet) by the holder is possible for either value and moves
\* the gate from Locked to UnlockedSet when nextSet is true and to
\* UnlockedUnset when it is false, whatever was observed at acquisition.
C9_UnlockSetsCondition ==
    /\ [](\A t \in Threads, b \in BOOLEAN :
            pc[t] = "held" => ENABLED Unlock(t, b))
    /\ [][\A t \in Threads :
            (pc[t] = "held" /\ pc'[t] # "held")
            => /\ GateState = "Locked"
               /\ GateState' = UnlockedAs(lastUnlock')
               /\ pc'[t] = "idle"
               /\ Holders' = {}]_vars

\* The only goroutine that ever called observed false in Lock and released
\* the gate with Unlock(true).
C9_Witness ==
    \E t \in Threads :
        /\ pc[t] = "idle" /\ op[t] = "Lock" /\ ret[t] = "false"
        /\ \A u \in Threads \ {t} : calls[u] = 0
        /\ lastUnlock /\ GateState = "UnlockedSet"

\* C10: New(initialSet) returns without blocking a gate that is unlocked with
\* condition initialSet: until the first acquisition Lock returns initialSet,
\* LockIfSet and WaitAndLock acquire at once iff initialSet is true, and a
\* WaitAndLock that had to wait does not acquire.
C10_New ==
    /\ [](~created => ENABLED New)
    /\ []((created /\ fresh)
          => (GateState = UnlockedAs(initialSet) /\ Holders = {}))
    /\ [][fresh =>
          \A t \in Threads :
            /\ (pc[t] = "Lock" /\ pc'[t] # "Lock")
               => (pc'[t] = "held" /\ ret'[t] = BoolStr(initialSet))
            /\ Called(t, "LockIfSet")
               => /\ ret'[t] = BoolStr(initialSet)
                  /\ (pc'[t] = "held") = initialSet
            /\ Called(t, "WaitAndLock")
               => (pc'[t] = "held") = initialSet
            /\ pc[t] = "WaitAndLock" => pc'[t] # "held"]_vars

\* The first operation on a gate created unset was a Lock, and it returned
\* false.
C10_Witness ==
    \E t \in Threads :
        /\ pc[t] = "held" /\ op[t] = "Lock" /\ ret[t] = "false"
        /\ ~initialSet
        /\ SumCalls(Threads) = 1

\* C11: with several goroutines blocked in WaitAndLock, one Unlock(true) lets
\* at most one acquire - an acquisition starts from a gate nobody holds and
\* makes the acquirer the only holder while every other waiter stays in
\* WaitAndLock; as long as the gate is held no waiter acquires, and a waiter
\* whose context is not done cannot take a step at all; the next Unlock is
\* the holder's.
C11_OneWaiterPerUnlock ==
    /\ [](Holders # {}
          => \A u \in Threads :
               (pc[u] = "WaitAndLock" /\ CtxErr(ctx[u]) = "nil")
               => ~ENABLED WaitAndLockWait(u))
    /\ [][/\ \A t \in Threads :
               (pc[t] # "held" /\ pc'[t] = "held")
               => /\ Holders = {}
                  /\ Holders' = {t}
                  /\ \A u \in Threads \ {t} :
                       pc[u] = "WaitAndLock" => pc'[u] = "WaitAndLock"
          /\ Holders # {}
             => \A u \in Threads :
                  pc[u] = "WaitAndLock" => pc'[u] # "held"
          /\ \A t \in Threads :
               (pc[t] = "held" /\ pc'[t] # "held") => Holders = {t}]_vars

\* Two goroutines were waiting when Unlock(true) came; one of them holds the
\* gate and the other is still inside WaitAndLock.
C11_Witness ==
    \E t, u \in Threads :
        /\ t # u
        /\ pc[t] = "held" /\ op[t] = "WaitAndLock" /\ race[t] = "setFirst"
        /\ pc[u] = "WaitAndLock" /\ race[u] = "setFirst"
        /\ lastUnlock

\* C12: cancellation is honoured during the wait - a goroutine inside
\* WaitAndLock whose context is done can always take its return step, also
\* while another goroutine holds the gate, and under fair scheduling it
\* returns the cancellation error unless the gate becomes UnlockedSet first.
C12_CancelDuringWait ==
    /\ [](\A t \in Threads :
            (pc[t] = "WaitAndLock" /\ ctx[t] \in Errors)
            => ENABLED WaitAndLockWait(t))
    /\ \A t \in Threads :
         (pc[t] = "WaitAndLock" /\ ctx[t] \in Errors)
         ~> \/ (pc[t] = "idle" /\ op[t] = "WaitAndLock" /\ ret[t] \in Errors)
            \/ GateState = "UnlockedSet"

\* On a gate created set, the only two calls were a Lock, whose caller still
\* holds the gate, and a WaitAndLock that returned the cancellation error:
\* the gate was Locked during the whole wait.
C12_Witness ==
    \E t, u \in Threads :
        /\ t # u
        /\ initialSet
        /\ pc[u] = "held" /\ op[u] = "Lock" /\ calls[u] = 1
        /\ pc[t] = "idle" /\ op[t] = "WaitAndLock" /\ ret[t] \in Errors
        /\ calls[t] = 1
        /\ SumCalls(Threads) = 2

\* C13: Example_queue - once the consumer's three Get calls have returned,
\* their results are (1, nil), (2, nil), (0, EOF) in this order.
C13_ExampleOutput ==
    Len(out) = 3 => out = << <<1, "nil">>, <<2, "nil">>, <<0, "EOF">> >>

\* The predicate the queue's gate stands for: closed or non-empty.
QueueReady == qerr # "nil" \/ Len(qq) > 0

\* C15: whenever the queue's gate is unlocked, its condition equals
\* (queue closed or item sequence non-empty) on the current queue state.
C15_ConditionIsQueuePredicate ==
    (created /\ Holders = {}) =>
        /\ GateState \in {"UnlockedSet", "UnlockedUnset"}
        /\ (GateState = "UnlockedSet") <=> QueueReady

\* A Get has taken the only item and released the gate with the condition
\* false again.
C15_Witness ==
    /\ created
    /\ Holders = {}
    /\ GateState = "UnlockedUnset"
    /\ \E t \in Threads : qret[t].kind = "Get" /\ qret[t].ok
    /\ \E t \in Threads : qret[t].kind = "Put" /\ qret[t].ok

\* A Get holds the gate and has passed the q.err check: it is at q.q[0].
AtFirstElement(t) == pc[t] = "held" /\ qop[t] = "Get" /\ qerr = "nil"

\* C17: a Get that reaches the access q.q[0] finds the queue open and
\* holding at least one item; no Get ends in an index-out-of-range panic.
C17_GetNeverReadsEmpty ==
    \A t \in Threads :
        /\ AtFirstElement(t) => Len(qq) >= 1
        /\ qret[t].err # "panic"

\* A Get is at q.q[0] of a queue that a returned Put has filled.
C17_Witness ==
    \E t, u \in Threads :
        /\ AtFirstElement(t)
        /\ Len(qq) = 1
        /\ qret[u].kind = "Put"
        /\ qret[u].ok

\* A Close with a non-nil error has returned.
Closed == qerr # "nil"

\* The step on which a Queue method of kind k returns to its caller.
Returns(t, k) == qop[t] = k /\ qop'[t] = "none"

\* The close error is the error of the first Close that passed a non-nil
\* one, and a later Close does not replace it.
FirstCloseWins ==
    /\ Closed => qerr' = qerr
    /\ \A t \in Threads :
         (~Closed /\ Returns(t, "Close")) => qerr' = qarg[t].err

\* A Put that returns after the close reports false and adds nothing.
PutAfterClose ==
    \A t \in Threads :
        (Closed /\ Returns(t, "Put")) => (~qret'[t].ok /\ qq' = qq)

C16_ChannelRepresentation ==
    created =>
        /\ set + unset <= ChanCap
        /\ (set + unset = 1) <=> (Holders = {})
        /\ (set = 0 /\ unset = 0) <=> (Holders # {})
        /\ (Holders = {}) => ((set = 1) <=> lastUnlock)

\* Both channels are empty under a holder that took the gate after an
\* earlier holder released it, while another goroutine waits in Lock.
C16_Witness ==
    \E t, u \in Threads :
        /\ pc[t] = "held"
        /\ pc[u] = "Lock"
        /\ set = 0 /\ unset = 0
        /\ \E v \in Threads : v # t /\ pc[v] = "idle" /\ calls[v] > 0

\* C18: a goroutine in Lock is never stuck while the gate has no holder:
\* whenever the gate is unlocked, in either state, its select can take the
\* value, and under fair scheduling some goroutine then acquires the gate.
C18_LockNeverStuck ==
    /\ [](\A t \in Threads :
            (pc[t] = "Lock" /\ Holders = {}) => ENABLED GateLock(t))
    /\ ((\E t \in Threads : pc[t] = "Lock") /\ Holders = {})
         ~> (Holders # {})

\* A goroutine is in Lock on a gate that an earlier holder released with
\* the condition false.
C18_Witness ==
    \E t \in Threads :
        /\ pc[t] = "Lock"
        /\ Holders = {}
        /\ GateState = "UnlockedUnset"
        /\ ~fresh

\* C19: the send of Unlock never blocks for the holder, whichever value it
\* passes, because both channels are empty while the gate is held; nor does
\* the send of the Unlock inside New.
C19_UnlockNeverBlocks ==
    /\ \A t \in Threads :
         pc[t] = "held" =>
            /\ set = 0 /\ unset = 0
            /\ ENABLED GateUnlockHeld(t, TRUE)
            /\ ENABLED GateUnlockHeld(t, FALSE)
    /\ ~created => (set = 0 /\ unset = 0 /\ ENABLED GateNew)

\* A goroutine holds the gate and is about to call Unlock while one
\* goroutine waits in WaitAndLock and another in Lock.
C19_Witness ==
    \E t, u, v \in Threads :
        /\ pc[t] = "held"
        /\ pc[u] = "WaitAndLock"
        /\ pc[v] = "Lock"

\* The number of values in the channel Unlock(b) sends to.
ChanOf(b) == IF b THEN set ELSE unset

\* The gate is unlocked with the condition value opposite to b.
UnlockedOpposite(b) == ChanOf(b) = 0 /\ ChanOf(~b) = ChanCap

\* C20: Unlock by a non-holder is not detected.  On a gate unlocked with the
\* opposite condition value its send completes and leaves a value in both
\* channels, after which a goroutine in Lock can acquire although another
\* holds the gate.  On a gate unlocked with the same value the send blocks,
\* and it stays blocked until some goroutine acquires the gate.
C20_MisuseUndetected ==
    /\ [](\A t \in Threads :
            pc[t] = "Unlock" =>
               /\ ChanOf(arg[t]) = 0 => ENABLED UnlockNotHeld(t)
               /\ ChanOf(arg[t]) = ChanCap => ~ENABLED UnlockNotHeld(t))
    /\ [](\A u \in Threads :
            (pc[u] = "Lock" /\ set + unset >= 1) => ENABLED GateLock(u))
    /\ [][\A t \in Threads :
            pc[t] = "Unlock" =>
               /\ (UnlockedOpposite(arg[t]) /\ pc'[t] = "idle")
                  => (set' = ChanCap /\ unset' = ChanCap)
               /\ (ChanOf(arg[t]) = ChanCap
                   /\ (IF arg[t] THEN set' ELSE unset') = 0)
                  => \E u \in Threads : pc[u] # "held" /\ pc'[u] = "held"]_vars

\* After an Unlock by a non-holder has returned, two goroutines hold the
\* gate at the same time.
C20_Witness ==
    /\ Cardinality(Holders) = 2
    /\ \E t \in Threads : op[t] = "Unlock" /\ pc[t] = "idle"
====
